---------------------------- MODULE Spec2Model ----------------------------
(***************************************************************************)
(* A model of the MAX77975/MAX77976 charger driver (src/src/lib.rs).       *)
(*                                                                         *)
(* The driver object `Charger` owns one I2C device handle.  Every public   *)
(* operation is an async fn that issues one, two or three bus              *)
(* transactions; the model has one action per public operation (the call,  *)
(* which computes the register code) and one action per bus transaction    *)
(* the private helpers issue.  Between two transactions the future can be  *)
(* dropped (Cancel), another bus master can write the device               *)
(* (external_write) and the device can latch interrupts or change status.  *)
(*                                                                         *)
(* A bus transaction is atomic.  A transaction that fails has no effect    *)
(* on the device registers.                                                *)
(***************************************************************************)
EXTENDS Integers, Sequences, FiniteSets, TLC

(***************************************************************************)
(* Register map (impl Reg) and the device address.                         *)
(***************************************************************************)
ADDR == 107
CHARGER_INTERRUPT == 16
CHARGER_INTERRUPT_MASK == 17
CHARGER_INTERRUPT_STATUS == 18
CHARGER_DETAILS_0 == 19
CHARGER_DETAILS_1 == 20
CHARGER_DETAILS_2 == 21
CHARGER_CONFIG_0 == 22
CHARGER_CONFIG_2 == 24
CHARGER_CONFIG_5 == 27
CHARGER_CONFIG_6 == 28
CHARGER_CONFIG_9 == 31
SHIP_MODE_CONTROL == 81

\* The registers the driver's operations touch.
Regs ==
  { CHARGER_INTERRUPT, CHARGER_INTERRUPT_MASK, CHARGER_INTERRUPT_STATUS,
    CHARGER_DETAILS_0, CHARGER_DETAILS_1, CHARGER_DETAILS_2,
    CHARGER_CONFIG_0, CHARGER_CONFIG_2, CHARGER_CONFIG_5, CHARGER_CONFIG_6,
    CHARGER_CONFIG_9, SHIP_MODE_CONTROL }

\* The bytes write_protected_reg writes to CHARGER_CONFIG_6.
UNLOCK == 12
LOCK == 0

\* u16::MAX, the largest `milliamps` argument.
U16_MAX == 65535

(***************************************************************************)
(* u8 / u16 arithmetic as the code computes it.                            *)
(***************************************************************************)
Bit(b, i) == (b \div (2 ^ i)) % 2

FromBits(f) ==
  f[0] + 2 * f[1] + 4 * f[2] + 8 * f[3] + 16 * f[4] + 32 * f[5] + 64 * f[6]
  + 128 * f[7]

BitAnd(a, b) == FromBits([i \in 0 .. 7 |-> Bit(a, i) * Bit(b, i)])

BitOr(a, b) ==
  FromBits([i \in 0 .. 7 |-> IF Bit(a, i) + Bit(b, i) > 0 THEN 1 ELSE 0])

\* Mutant: the complement left out.
BitNot_missing(a) == a

\* `!x` on a u8.
BitNot(a) == FromBits([i \in 0 .. 7 |-> 1 - Bit(a, i)])

\* u16::saturating_sub
saturating_sub(a, b) == IF a >= b THEN a - b ELSE 0

\* Ord::min
min(a, b) == IF a <= b THEN a ELSE b

\* `x as u8`
as_u8(x) == x % 256


(***************************************************************************)
(* Unit quantization: the register codes the setters compute.              *)
(***************************************************************************)
\* Mutant: `wrapping_sub` for `saturating_sub`.
sys_ilim_code_wrapping(milliamps) ==
  as_u8(min(((milliamps \div 500) - 5) % 65536, 15))

\* set_sys_ilim: `(milliamps / 500).saturating_sub(5).min(0xf) as u8`
sys_ilim_code(milliamps) ==
  as_u8(min(saturating_sub(milliamps \div 500, 5), 15))

\* set_sys_ilim: the byte handed to write_protected_reg, `recycle_en | sys_ilim`
sys_ilim_byte(milliamps, recycle_en) ==
  BitOr(IF recycle_en THEN 16 ELSE 0, sys_ilim_code(milliamps))

\* set_chgin_ilim: `(milliamps / 50).saturating_sub(1).min(0x3f) as u8`
chgin_ilim_code(milliamps) ==
  as_u8(min(saturating_sub(milliamps \div 50, 1), 63))

\* Mutant: the closure without its mask, `|val| val | chgin_ilim`.
chgin_ilim_func_unmasked(v, chgin_ilim) == BitOr(v, chgin_ilim)

\* set_chgin_ilim: the closure `|val| (val & 0xc0) | chgin_ilim`
chgin_ilim_func(v, chgin_ilim) == BitOr(BitAnd(v, 192), chgin_ilim)

\* Mutant: the cast without the clamp, `(milliamps / 50) as u8`.
chg_cc_code_unclamped(milliamps) == as_u8(milliamps \div 50)

\* set_fast_charge_current: `(milliamps / 50).min(0x7f) as u8`
chg_cc_code(milliamps) == as_u8(min(milliamps \div 50, 127))

(***************************************************************************)
(* Bitfield codecs.  A #[bitfield] struct packs its fields from bit 0 up   *)
(* in declaration order and keeps the raw bytes, skipped bits included.    *)
(***************************************************************************)
\* Every value of the struct ChargerInterrupts (its 8 bits, one skipped).
AllChargerInterrupts ==
  [ bypass_node : BOOLEAN, disqbat : BOOLEAN, skipped : BOOLEAN,
    battery : BOOLEAN, charger : BOOLEAN, input_current_limit : BOOLEAN,
    chgin : BOOLEAN, adaptive_input_current_loop : BOOLEAN ]

\* ChargerInterrupts::from_bytes([x])
ChargerInterrupts_from_bytes(x) ==
  [ bypass_node |-> Bit(x, 0) = 1,
    disqbat |-> Bit(x, 1) = 1,
    skipped |-> Bit(x, 2) = 1,
    battery |-> Bit(x, 3) = 1,
    charger |-> Bit(x, 4) = 1,
    input_current_limit |-> Bit(x, 5) = 1,
    chgin |-> Bit(x, 6) = 1,
    adaptive_input_current_loop |-> Bit(x, 7) = 1 ]

B(flag) == IF flag THEN 1 ELSE 0

\* Mutant: the skipped bit not kept by the encoder.
ChargerInterrupts_into_bytes_dropping_skipped(irqs) ==
  B(irqs.bypass_node) + 2 * B(irqs.disqbat)
  + 8 * B(irqs.battery) + 16 * B(irqs.charger)
  + 32 * B(irqs.input_current_limit) + 64 * B(irqs.chgin)
  + 128 * B(irqs.adaptive_input_current_loop)

\* ChargerInterrupts::into_bytes()[0]
ChargerInterrupts_into_bytes(irqs) ==
  B(irqs.bypass_node) + 2 * B(irqs.disqbat) + 4 * B(irqs.skipped)
  + 8 * B(irqs.battery) + 16 * B(irqs.charger)
  + 32 * B(irqs.input_current_limit) + 64 * B(irqs.chgin)
  + 128 * B(irqs.adaptive_input_current_loop)

\* `mode as u8`
Modes == {"Off", "Buck", "Charge", "Boost", "Otg"}

\* Mutant: the variants without their explicit discriminants.
Mode_as_u8_contiguous(mode) ==
  CASE mode = "Off" -> 0
    [] mode = "Buck" -> 1
    [] mode = "Charge" -> 2
    [] mode = "Boost" -> 3
    [] mode = "Otg" -> 4

Mode_as_u8(mode) ==
  CASE mode = "Off" -> 0
    [] mode = "Buck" -> 4
    [] mode = "Charge" -> 5
    [] mode = "Boost" -> 9
    [] mode = "Otg" -> 10

\* The enumerations of the Details sub-fields, by discriminant (from 0).
BatterySense == <<"Connected", "PositiveOpen", "NegativeOpen", "BothOpen">>

ChgIn == <<"Undervoltage", "BelowBatt", "Overvoltage", "Valid">>

TemperatureRegulation == <<"BelowThreshold", "AboveThreshold">>

BatteryDetails ==
  << "BatteryRemoved", "PrequalificationVoltage", "TimerFault",
     "RegularVoltage", "LowVoltage", "Overvoltage", "Reserved", "BatteryOnly" >>

ChargerDetails ==
  << "Prequalification", "ConstantCurrent", "ConstantVoltage", "TopOff",
     "Done", "Reserved05", "TimerFault", "QBattDisabled", "Off", "Reserved09",
     "HighTemperature", "WatchdogTimer", "Jeita", "ThermistorRemoval",
     "SuspendPin", "Reserved0F" >>

ThermistorDetails ==
  << "Cold", "Cool", "Normal", "Warm", "Hot", "Removed", "Disabled",
     "Reserved" >>

\* BypassNodeDetails::from_bytes on a 4-bit pattern
BypassNodeDetails_from_bits(x) ==
  [ otg_current_limit |-> Bit(x, 0) = 1,
    boost_current_limit |-> Bit(x, 1) = 1,
    buck_current_limit |-> Bit(x, 2) = 1,
    boost_on |-> Bit(x, 3) = 1 ]

\* Every value of the struct BypassNodeDetails.
AllBypassNodeDetails ==
  [ otg_current_limit : BOOLEAN, boost_current_limit : BOOLEAN,
    buck_current_limit : BOOLEAN, boost_on : BOOLEAN ]

\* BypassNodeDetails::into_bytes()[0], a 4-bit pattern
BypassNodeDetails_into_bits(x) ==
  B(x.otg_current_limit) + 2 * B(x.boost_current_limit)
  + 4 * B(x.buck_current_limit) + 8 * B(x.boost_on)

\* The bits [offset, offset + width) of a little-endian 24-bit word.
Field(w, offset, width) == (w \div (2 ^ offset)) % (2 ^ width)

\* Mutant: the three bytes taken most significant first.
Details_from_bytes_big_endian(buf) ==
  LET w == buf[3] + 256 * buf[2] + 65536 * buf[1]
  IN  [ sense |-> BatterySense[Field(w, 1, 2) + 1],
        chgin |-> ChgIn[Field(w, 5, 2) + 1],
        charger |-> ChargerDetails[Field(w, 8, 4) + 1],
        battery |-> BatteryDetails[Field(w, 12, 3) + 1],
        temp |-> TemperatureRegulation[Field(w, 15, 1) + 1],
        bypass |-> BypassNodeDetails_from_bits(Field(w, 16, 4)),
        thermistor |-> ThermistorDetails[Field(w, 20, 3) + 1] ]

\* Details::from_bytes(buf) read through its getters.
Details_from_bytes(buf) ==
  LET w == buf[1] + 256 * buf[2] + 65536 * buf[3]
  IN  [ sense |-> BatterySense[Field(w, 1, 2) + 1],
        chgin |-> ChgIn[Field(w, 5, 2) + 1],
        charger |-> ChargerDetails[Field(w, 8, 4) + 1],
        battery |-> BatteryDetails[Field(w, 12, 3) + 1],
        temp |-> TemperatureRegulation[Field(w, 15, 1) + 1],
        bypass |-> BypassNodeDetails_from_bits(Field(w, 16, 4)),
        thermistor |-> ThermistorDetails[Field(w, 20, 3) + 1] ]


(***************************************************************************)
(* Bounds and the inputs the operations are called with.                   *)
(***************************************************************************)
\* Public operations begun in one behaviour.
MaxOps == 2

\* `milliamps` arguments: below every range, inside each, above every range.
MilliampSamples == {0, 2600, U16_MAX}

\* `irqs` arguments of set_charger_irq_mask (built with the setters, so the
\* skipped bit is clear).
IrqArgSamples ==
  { ChargerInterrupts_from_bytes(0), ChargerInterrupts_from_bytes(144) }

\* Interrupt bits the device latches, and status bytes it reports.
LatchSamples == {16, 128}

StatusSamples == {0, 144}

\* The value of CHARGER_DETAILS_0..2 the device reports.
DetailsSamples == { <<102, 181, 122>> }

\* Values another bus master writes to CHARGER_CONFIG_9 (0 at power-on).
Config9Samples == {0, 197}

\* What a bus transaction returns: Ok(..) or Err(e) for a transport error e.
Errors == {"ErrA", "ErrB"}

Outcomes == {"Ok"} \cup Errors

(***************************************************************************)
(* State.                                                                  *)
(*   dev    the device's registers                                         *)
(*   pc     where the running operation's future is suspended              *)
(*   call   the public operation called last, with its arguments           *)
(*   fr     the locals of the private helper: its `reg` and `val`, the     *)
(*          captured `chgin_ilim`, and `res` of write_protected_reg        *)
(*   bus    the transactions the operation has issued, in order, each with *)
(*          its outcome and the bytes it read                              *)
(*   ret    what the operation returned: Ok, an error, or nothing yet      *)
(*   out    the value inside Ok(..) of a reading operation                 *)
(*   ext    the value another master wrote to CHARGER_CONFIG_9 between    *)
(*          modify_reg's read and its write-back, if any: <<v>> or <<>>    *)
(*   faulted a transaction failed or a future was dropped in this run      *)
(*   nops   operations begun                                               *)
(***************************************************************************)
VARIABLES dev, pc, call, fr, bus, ret, out, ext, faulted, nops, consumed

vars == <<dev, pc, call, fr, bus, ret, out, ext, faulted, nops, consumed>>

NoFrame == [reg |-> 0, val |-> 0, chgin_ilim |-> 0, res |-> "None"]

NoCall ==
  [name |-> "none", milliamps |-> 0, recycle_en |-> FALSE, mode |-> "Off",
   irqs |-> ChargerInterrupts_from_bytes(0)]

NoOut == [kind |-> "none"]

\* History: how the latest latching of each interrupt flag was consumed by
\* a read of CHARGER_INTERRUPT ("no" while it has not been).
NotConsumed == [b \in LatchSamples |-> "no"]

\* Charger::new: nothing is sent; the device is in its power-on state, locked.
Init ==
  /\ \E dt \in DetailsSamples :
       dev =
         [r \in Regs |->
            CASE r = CHARGER_INTERRUPT_MASK -> 255
              [] r = CHARGER_DETAILS_0 -> dt[1]
              [] r = CHARGER_DETAILS_1 -> dt[2]
              [] r = CHARGER_DETAILS_2 -> dt[3]
              [] r = CHARGER_CONFIG_6 -> LOCK
              [] OTHER -> 0]
  /\ pc = "idle"
  /\ call = NoCall
  /\ fr = NoFrame
  /\ bus = <<>>
  /\ ret = "None"
  /\ out = NoOut
  /\ ext = <<>>
  /\ faulted = FALSE
  /\ nops = 0
  /\ consumed = NotConsumed

(***************************************************************************)
(* The bus (embedded_hal_async::i2c::I2c) and the device behind it.        *)
(***************************************************************************)
\* i2c_dev.write(ADDR, &[reg, val]): on success the device stores val.
i2c_write(bytes, outcome) ==
  /\ bus' =
       Append(bus,
              [kind |-> "write", addr |-> ADDR, bytes |-> bytes, len |-> 0,
               result |-> outcome, data |-> <<>>])
  /\ dev' = IF outcome = "Ok" THEN [dev EXCEPT ![bytes[1]] = bytes[2]] ELSE dev
  /\ UNCHANGED consumed

\* The bytes a successful write_read of `len` bytes from `base` returns.
ReadData(base, len) == [i \in 1 .. len |-> dev[base + i - 1]]

\* i2c_dev.write_read(ADDR, &[base], buf): reading CHARGER_INTERRUPT clears it.
i2c_write_read_keeping_latches(base, len, outcome) ==
  /\ bus' =
       Append(bus,
              [kind |-> "write_read", addr |-> ADDR, bytes |-> <<base>>,
               len |-> len, result |-> outcome,
               data |-> IF outcome = "Ok" THEN ReadData(base, len) ELSE <<>>])
  /\ dev' = dev

i2c_write_read(base, len, outcome) ==
  /\ bus' =
       Append(bus,
              [kind |-> "write_read", addr |-> ADDR, bytes |-> <<base>>,
               len |-> len, result |-> outcome,
               data |-> IF outcome = "Ok" THEN ReadData(base, len) ELSE <<>>])
  /\ dev' =
       IF outcome = "Ok" /\ CHARGER_INTERRUPT \in base .. (base + len - 1)
       THEN [dev EXCEPT ![CHARGER_INTERRUPT] = 0]
       ELSE dev

\* Charger::write_reg
write_reg(reg, val, outcome) == i2c_write(<<reg, val>>, outcome)

\* Charger::read_reg
read_reg(reg, outcome) == i2c_write_read(reg, 1, outcome)

\* Charger::read_buf with a buffer of `len` bytes
read_buf(base, len, outcome) == i2c_write_read(base, len, outcome)

\* The flags a successful read of CHARGER_INTERRUPT found latched are
\* consumed by it, `how` naming what the operation does with them.
Consume(how, outcome) ==
  consumed' =
    IF outcome = "Ok"
    THEN [b \in LatchSamples |->
            IF BitAnd(dev[CHARGER_INTERRUPT], b) # 0 THEN how ELSE consumed[b]]
    ELSE consumed

\* A transaction that failed marks the run.
Fault(outcome) == faulted' = (faulted \/ outcome # "Ok")


(***************************************************************************)
(* Public operations: the call, up to the first await.                     *)
(***************************************************************************)
\* A call starts from rest (`&mut self`: one operation at a time).
AtRest == pc = "idle" /\ nops < MaxOps

\* The call's transaction log and result start empty.
Begin(c) ==
  /\ nops' = nops + 1
  /\ call' = c
  /\ bus' = <<>>
  /\ ret' = "None"
  /\ out' = NoOut
  /\ ext' = <<>>
  /\ UNCHANGED <<dev, faulted, consumed>>

set_sys_ilim_with(M) ==
  /\ AtRest
  /\ \E milliamps \in M, recycle_en \in BOOLEAN :
       /\ Begin([NoCall EXCEPT !.name = "set_sys_ilim",
                               !.milliamps = milliamps,
                               !.recycle_en = recycle_en])
       /\ fr' = [NoFrame EXCEPT !.reg = CHARGER_CONFIG_5,
                                !.val = sys_ilim_byte(milliamps, recycle_en)]
       /\ pc' = "write_protected_reg"

set_sys_ilim == set_sys_ilim_with(MilliampSamples)

set_chgin_ilim_with(M) ==
  /\ AtRest
  /\ \E milliamps \in M :
       /\ Begin([NoCall EXCEPT !.name = "set_chgin_ilim",
                               !.milliamps = milliamps])
       /\ fr' = [NoFrame EXCEPT !.reg = CHARGER_CONFIG_9,
                                !.chgin_ilim = chgin_ilim_code(milliamps)]
       /\ pc' = "modify_reg"

set_chgin_ilim == set_chgin_ilim_with(MilliampSamples)

\* Mutant: the target register of set_sys_ilim, copied.
set_fast_charge_current_config_5 ==
  /\ AtRest
  /\ \E milliamps \in MilliampSamples :
       /\ Begin([NoCall EXCEPT !.name = "set_fast_charge_current",
                               !.milliamps = milliamps])
       /\ fr' = [NoFrame EXCEPT !.reg = CHARGER_CONFIG_5,
                                !.val = chg_cc_code(milliamps)]
       /\ pc' = "write_protected_reg"

set_fast_charge_current_with(M) ==
  /\ AtRest
  /\ \E milliamps \in M :
       /\ Begin([NoCall EXCEPT !.name = "set_fast_charge_current",
                               !.milliamps = milliamps])
       /\ fr' = [NoFrame EXCEPT !.reg = CHARGER_CONFIG_2,
                                !.val = chg_cc_code(milliamps)]
       /\ pc' = "write_protected_reg"

set_fast_charge_current == set_fast_charge_current_with(MilliampSamples)

set_mode ==
  /\ AtRest
  /\ \E mode \in Modes :
       /\ Begin([NoCall EXCEPT !.name = "set_mode", !.mode = mode])
       /\ fr' = [NoFrame EXCEPT !.reg = CHARGER_CONFIG_0,
                                !.val = Mode_as_u8(mode)]
       /\ pc' = "write_reg"

enter_ship_mode ==
  /\ AtRest
  /\ Begin([NoCall EXCEPT !.name = "enter_ship_mode"])
  /\ fr' = [NoFrame EXCEPT !.reg = SHIP_MODE_CONTROL, !.val = 1]
  /\ pc' = "write_reg"

set_charger_irq_mask_with(I) ==
  /\ AtRest
  /\ \E irqs \in I :
       /\ Begin([NoCall EXCEPT !.name = "set_charger_irq_mask", !.irqs = irqs])
       /\ fr' = [NoFrame EXCEPT !.reg = CHARGER_INTERRUPT_MASK,
                                !.val = BitNot(ChargerInterrupts_into_bytes(irqs))]
       /\ pc' = "write_reg"

set_charger_irq_mask == set_charger_irq_mask_with(IrqArgSamples)

charger_irq_flags ==
  /\ AtRest
  /\ Begin([NoCall EXCEPT !.name = "charger_irq_flags"])
  /\ fr' = [NoFrame EXCEPT !.reg = CHARGER_INTERRUPT]
  /\ pc' = "read_reg"

charger_status ==
  /\ AtRest
  /\ Begin([NoCall EXCEPT !.name = "charger_status"])
  /\ fr' = [NoFrame EXCEPT !.reg = CHARGER_INTERRUPT]
  /\ pc' = "read_buf"

charger_details ==
  /\ AtRest
  /\ Begin([NoCall EXCEPT !.name = "charger_details"])
  /\ fr' = [NoFrame EXCEPT !.reg = CHARGER_DETAILS_0]
  /\ pc' = "read_buf"

(***************************************************************************)
(* The private helpers: one action per bus transaction they await.         *)
(***************************************************************************)
\* The operation returns `r`.
Return(r) ==
  /\ pc' = "idle"
  /\ ret' = r

\* Mutant: the unlock write without its `?`.
write_protected_reg_unlock_unchecked ==
  /\ pc = "write_protected_reg"
  /\ \E o \in Outcomes :
       /\ write_reg(CHARGER_CONFIG_6, UNLOCK, o)
       /\ Fault(o)
  /\ pc' = "write_protected_reg_target"
  /\ UNCHANGED <<call, fr, ret, out, ext, nops>>

\* write_protected_reg, line 1: `self.write_reg(CHARGER_CONFIG_6, 0x0c).await?`
write_protected_reg_unlock ==
  /\ pc = "write_protected_reg"
  /\ \E o \in Outcomes :
       /\ write_reg(CHARGER_CONFIG_6, UNLOCK, o)
       /\ Fault(o)
       /\ IF o = "Ok"
          THEN pc' = "write_protected_reg_target" /\ UNCHANGED ret
          ELSE Return(o)
  /\ UNCHANGED <<call, fr, out, ext, nops>>

\* write_protected_reg, line 2: `let res = self.write_reg(reg, val).await`
write_protected_reg_target ==
  /\ pc = "write_protected_reg_target"
  /\ \E o \in Outcomes :
       /\ write_reg(fr.reg, fr.val, o)
       /\ Fault(o)
       /\ fr' = [fr EXCEPT !.res = o]
  /\ pc' = "write_protected_reg_lock"
  /\ UNCHANGED <<call, ret, out, ext, nops>>

\* Mutant: the lock write's result discarded, the target's returned.
write_protected_reg_result_of_target(res, lock) == res

\* What write_protected_reg returns once the lock write has returned `lock`:
\* `self.write_reg(CHARGER_CONFIG_6, 0x00).await?; res`
write_protected_reg_result(res, lock) == IF lock # "Ok" THEN lock ELSE res

\* Mutant: no lock write, the target write's result is returned at once.
write_protected_reg_lock_missing ==
  /\ pc = "write_protected_reg_lock"
  /\ Return(fr.res)
  /\ UNCHANGED <<dev, bus, faulted, call, fr, out, ext, nops, consumed>>

\* write_protected_reg, lines 3-4
write_protected_reg_lock ==
  /\ pc = "write_protected_reg_lock"
  /\ \E o \in Outcomes :
       /\ write_reg(CHARGER_CONFIG_6, LOCK, o)
       /\ Fault(o)
       /\ Return(write_protected_reg_result(fr.res, o))
  /\ UNCHANGED <<call, fr, out, ext, nops>>

\* Mutant: the read's result not checked, `read_reg(reg).await` without `?`.
modify_reg_read_unchecked ==
  /\ pc = "modify_reg"
  /\ \E o \in Outcomes :
       /\ read_reg(fr.reg, o)
       /\ Fault(o)
       /\ fr' = [fr EXCEPT !.val = IF o = "Ok" THEN ReadData(fr.reg, 1)[1] ELSE 0]
       /\ pc' = "modify_reg_write"
       /\ UNCHANGED ret
  /\ UNCHANGED <<call, out, ext, nops, consumed>>

\* modify_reg, line 1: `let val = self.read_reg(reg).await?`
modify_reg_read ==
  /\ pc = "modify_reg"
  /\ \E o \in Outcomes :
       /\ read_reg(fr.reg, o)
       /\ Fault(o)
       /\ IF o = "Ok"
          THEN /\ fr' = [fr EXCEPT !.val = ReadData(fr.reg, 1)[1]]
               /\ pc' = "modify_reg_write"
               /\ UNCHANGED ret
          ELSE Return(o) /\ UNCHANGED fr
  /\ UNCHANGED <<call, out, ext, nops, consumed>>

\* Mutant: the transform applied to the register's value at write time.
modify_reg_value_fresh == chgin_ilim_func(dev[fr.reg], fr.chgin_ilim)

\* The byte modify_reg writes back: `func(val)` of the value it read.
modify_reg_value == chgin_ilim_func(fr.val, fr.chgin_ilim)

\* modify_reg, lines 2-3: `let val = func(val); self.write_reg(reg, val).await`
modify_reg_write ==
  /\ pc = "modify_reg_write"
  /\ \E o \in Outcomes :
       /\ write_reg(fr.reg, modify_reg_value, o)
       /\ Fault(o)
       /\ Return(o)
  /\ UNCHANGED <<call, fr, out, ext, nops>>

\* Mutant: a failed write reissued once before the error is returned.
write_reg_await_retrying ==
  /\ pc = "write_reg"
  /\ \E o \in Outcomes :
       /\ write_reg(fr.reg, fr.val, o)
       /\ Fault(o)
       /\ IF o # "Ok" /\ bus = <<>>
          THEN UNCHANGED <<pc, ret>>
          ELSE Return(o)
  /\ UNCHANGED <<call, fr, out, ext, nops>>

\* set_mode, enter_ship_mode, set_charger_irq_mask: `self.write_reg(..).await`
write_reg_await ==
  /\ pc = "write_reg"
  /\ \E o \in Outcomes :
       /\ write_reg(fr.reg, fr.val, o)
       /\ Fault(o)
       /\ Return(o)
  /\ UNCHANGED <<call, fr, out, ext, nops>>

\* charger_irq_flags: `self.read_reg(..).await.map(ChargerInterrupts::from_bytes)`
charger_irq_flags_await ==
  /\ pc = "read_reg"
  /\ \E o \in Outcomes :
       /\ read_reg(fr.reg, o)
       /\ Consume("reported", o)
       /\ Fault(o)
       /\ Return(o)
       /\ out' =
            IF o = "Ok"
            THEN [kind |-> "ChargerInterrupts",
                  v |-> ChargerInterrupts_from_bytes(ReadData(fr.reg, 1)[1])]
            ELSE NoOut
  /\ UNCHANGED <<call, fr, ext, nops>>

\* The buffer of charger_status and charger_details: `let mut buf = [0; 3]`
BufLen == 3

\* Mutant: two reads, the interrupt register and then the status register.
charger_status_await_split ==
  /\ pc = "read_buf"
  /\ call.name = "charger_status"
  /\ \E o \in Outcomes :
       \/ /\ bus = <<>>
          /\ read_reg(CHARGER_INTERRUPT, o)
          /\ Consume("discarded", o)
          /\ Fault(o)
          /\ IF o = "Ok" THEN UNCHANGED <<pc, ret>> ELSE Return(o)
          /\ UNCHANGED out
       \/ /\ Len(bus) = 1
          /\ read_reg(CHARGER_INTERRUPT_STATUS, o)
          /\ UNCHANGED consumed
          /\ Fault(o)
          /\ Return(o)
          /\ out' =
               IF o = "Ok"
               THEN [kind |-> "ChargerInterrupts",
                     v |-> ChargerInterrupts_from_bytes(
                             dev[CHARGER_INTERRUPT_STATUS])]
               ELSE NoOut
  /\ UNCHANGED <<call, fr, ext, nops>>

\* Mutant: the first byte of the buffer decoded, `from_bytes([buf[0]])`.
charger_status_await_first_byte ==
  /\ pc = "read_buf"
  /\ call.name = "charger_status"
  /\ \E o \in Outcomes :
       /\ read_buf(fr.reg, BufLen, o)
       /\ Consume("discarded", o)
       /\ Fault(o)
       /\ Return(o)
       /\ out' =
            IF o = "Ok"
            THEN [kind |-> "ChargerInterrupts",
                  v |-> ChargerInterrupts_from_bytes(ReadData(fr.reg, BufLen)[1])]
            ELSE NoOut
  /\ UNCHANGED <<call, fr, ext, nops>>

\* charger_status: read_buf into buf, then `from_bytes([buf[2]])`
charger_status_await ==
  /\ pc = "read_buf"
  /\ call.name = "charger_status"
  /\ \E o \in Outcomes :
       /\ read_buf(fr.reg, BufLen, o)
       /\ Consume("discarded", o)
       /\ Fault(o)
       /\ Return(o)
       /\ out' =
            IF o = "Ok"
            THEN [kind |-> "ChargerInterrupts",
                  v |-> ChargerInterrupts_from_bytes(ReadData(fr.reg, BufLen)[3])]
            ELSE NoOut
  /\ UNCHANGED <<call, fr, ext, nops>>

\* charger_details: read_buf into buf, then `Details::from_bytes(buf)`
charger_details_await ==
  /\ pc = "read_buf"
  /\ call.name = "charger_details"
  /\ \E o \in Outcomes :
       /\ read_buf(fr.reg, BufLen, o)
       /\ UNCHANGED consumed
       /\ Fault(o)
       /\ Return(o)
       /\ out' =
            IF o = "Ok"
            THEN [kind |-> "Details",
                  v |-> Details_from_bytes(ReadData(fr.reg, BufLen))]
            ELSE NoOut
  /\ UNCHANGED <<call, fr, ext, nops>>

(***************************************************************************)
(* The environment.                                                        *)
(***************************************************************************)
\* Mutant: a drop handler that writes the lock byte.
Cancel_relocking ==
  /\ pc # "idle"
  /\ pc' = "idle"
  /\ ret' = "Cancelled"
  /\ faulted' = TRUE
  /\ dev' = [dev EXCEPT ![CHARGER_CONFIG_6] = LOCK]
  /\ UNCHANGED <<call, fr, bus, out, ext, nops, consumed>>

\* The caller drops the operation's future at an await point: nothing more
\* of the operation runs (the driver has no Drop handler).
Cancel ==
  /\ pc # "idle"
  /\ pc' = "idle"
  /\ ret' = "Cancelled"
  /\ faulted' = TRUE
  /\ UNCHANGED <<dev, call, fr, bus, out, ext, nops, consumed>>

\* Another bus master writes CHARGER_CONFIG_9.
external_write ==
  /\ \E v \in Config9Samples :
       /\ v # dev[CHARGER_CONFIG_9]
       /\ dev' = [dev EXCEPT ![CHARGER_CONFIG_9] = v]
       /\ ext' = IF pc = "modify_reg_write" THEN <<v>> ELSE ext
  /\ UNCHANGED <<pc, call, fr, bus, ret, out, faulted, nops, consumed>>

\* The device latches an interrupt flag.
device_latch ==
  /\ \E b \in LatchSamples :
       /\ BitAnd(dev[CHARGER_INTERRUPT], b) = 0
       /\ dev' =
            [dev EXCEPT ![CHARGER_INTERRUPT] = BitOr(dev[CHARGER_INTERRUPT], b)]
       /\ consumed' = [consumed EXCEPT ![b] = "no"]
  /\ UNCHANGED <<pc, call, fr, bus, ret, out, ext, faulted, nops>>

\* The device's status bits change.
device_status ==
  /\ \E st \in StatusSamples :
       /\ st # dev[CHARGER_INTERRUPT_STATUS]
       /\ dev' = [dev EXCEPT ![CHARGER_INTERRUPT_STATUS] = st]
  /\ UNCHANGED <<pc, call, fr, bus, ret, out, ext, faulted, nops, consumed>>

Next ==
  \/ set_sys_ilim
  \/ set_chgin_ilim
  \/ set_fast_charge_current
  \/ set_mode
  \/ enter_ship_mode
  \/ set_charger_irq_mask
  \/ charger_irq_flags
  \/ charger_status
  \/ charger_details
  \/ write_protected_reg_unlock
  \/ write_protected_reg_target
  \/ write_protected_reg_lock
  \/ modify_reg_read
  \/ modify_reg_write
  \/ write_reg_await
  \/ charger_irq_flags_await
  \/ charger_status_await
  \/ charger_details_await
  \/ Cancel
  \/ external_write
  \/ device_latch
  \/ device_status

Spec == Init /\ [][Next]_vars

(***************************************************************************)
(* One call of set_sys_ilim, over every u16 argument.                      *)
(***************************************************************************)
set_sys_ilim_any == nops = 0 /\ set_sys_ilim_with(0 .. U16_MAX)

SpecSysIlim == Init /\ [][set_sys_ilim_any]_vars

(***************************************************************************)
(* One call of set_fast_charge_current, over every u16 argument.           *)
(***************************************************************************)
set_fast_charge_current_any ==
  nops = 0 /\ set_fast_charge_current_with(0 .. U16_MAX)

SpecFastCharge == Init /\ [][set_fast_charge_current_any]_vars

(***************************************************************************)
(* One call of set_charger_irq_mask, over every ChargerInterrupts value.   *)
(***************************************************************************)
set_charger_irq_mask_any ==
  nops = 0 /\ set_charger_irq_mask_with(AllChargerInterrupts)

NextIrqMask == set_charger_irq_mask_any \/ write_reg_await \/ Cancel

SpecIrqMask == Init /\ [][NextIrqMask]_vars

(***************************************************************************)
(* One charger_status over every status byte, with sampled interrupt and   *)
(* mask bytes in front of it.                                              *)
(***************************************************************************)
ByteSamples == {0, 1, 16, 111, 144, 255}

\* The state of Init but for the registers `regs`, which hold `bytes`.
InitWith(regs, bytes) ==
  /\ dev =
       [r \in Regs |->
          IF \E i \in 1 .. Len(regs) : regs[i] = r
          THEN bytes[CHOOSE i \in 1 .. Len(regs) : regs[i] = r]
          ELSE 0]
  /\ pc = "idle"
  /\ call = NoCall
  /\ fr = NoFrame
  /\ bus = <<>>
  /\ ret = "None"
  /\ out = NoOut
  /\ ext = <<>>
  /\ faulted = FALSE
  /\ nops = 0
  /\ consumed = NotConsumed

InitStatus ==
  \E b0 \in ByteSamples, b1 \in ByteSamples, b2 \in 0 .. 255 :
    InitWith(<<CHARGER_INTERRUPT, CHARGER_INTERRUPT_MASK,
               CHARGER_INTERRUPT_STATUS>>, <<b0, b1, b2>>)

charger_status_once == nops = 0 /\ charger_status

NextStatus == charger_status_once \/ charger_status_await

SpecStatus == InitStatus /\ [][NextStatus]_vars

(***************************************************************************)
(* One charger_details over the detail bytes: each of the three bytes over *)
(* all its values, with the other two sampled.                             *)
(***************************************************************************)
DetailsTriples ==
  UNION { { <<x, y, z>>, <<y, x, z>>, <<y, z, x>> } :
          <<x, y, z>> \in (0 .. 255) \X ByteSamples \X ByteSamples }

InitDetails ==
  \E buf \in DetailsTriples :
    InitWith(<<CHARGER_DETAILS_0, CHARGER_DETAILS_1, CHARGER_DETAILS_2>>, buf)

charger_details_once == nops = 0 /\ charger_details

NextDetails == charger_details_once \/ charger_details_await

SpecDetails == InitDetails /\ [][NextDetails]_vars

(***************************************************************************)
(* The re-encodable codecs applied in alternation to a bit pattern or to a *)
(* value; `out` holds the current form, the origin and the steps taken.    *)
(***************************************************************************)
MaxCodecSteps == 2

InitCodec ==
  /\ dev = [r \in Regs |-> 0]
  /\ pc = "idle"
  /\ call = NoCall
  /\ fr = NoFrame
  /\ bus = <<>>
  /\ ret = "None"
  /\ ext = <<>>
  /\ faulted = FALSE
  /\ nops = 0
  /\ consumed = NotConsumed
  /\ \E ty \in {"ChargerInterrupts", "BypassNodeDetails"},
        form \in {"bits", "value"} :
       \E v \in IF form = "bits"
                THEN (IF ty = "ChargerInterrupts" THEN 0 .. 255 ELSE 0 .. 15)
                ELSE (IF ty = "ChargerInterrupts"
                      THEN AllChargerInterrupts ELSE AllBypassNodeDetails) :
         out = [kind |-> ty, form |-> form, v |-> v, origin |-> v, steps |-> 0]

\* A value of type `ty` in form `form` that may still be converted.
CodecAt(ty, form) ==
  /\ out.kind = ty
  /\ out.form = form
  /\ out.steps < MaxCodecSteps

CodecTo(form, v) == [out EXCEPT !.form = form, !.v = v, !.steps = @ + 1]

ChargerInterrupts_decode ==
  /\ CodecAt("ChargerInterrupts", "bits")
  /\ out' = CodecTo("value", ChargerInterrupts_from_bytes(out.v))
  /\ UNCHANGED <<dev, pc, call, fr, bus, ret, ext, faulted, nops, consumed>>

ChargerInterrupts_encode ==
  /\ CodecAt("ChargerInterrupts", "value")
  /\ out' = CodecTo("bits", ChargerInterrupts_into_bytes(out.v))
  /\ UNCHANGED <<dev, pc, call, fr, bus, ret, ext, faulted, nops, consumed>>

BypassNodeDetails_decode ==
  /\ CodecAt("BypassNodeDetails", "bits")
  /\ out' = CodecTo("value", BypassNodeDetails_from_bits(out.v))
  /\ UNCHANGED <<dev, pc, call, fr, bus, ret, ext, faulted, nops, consumed>>

BypassNodeDetails_encode ==
  /\ CodecAt("BypassNodeDetails", "value")
  /\ out' = CodecTo("bits", BypassNodeDetails_into_bits(out.v))
  /\ UNCHANGED <<dev, pc, call, fr, bus, ret, ext, faulted, nops, consumed>>

NextCodec ==
  \/ ChargerInterrupts_decode
  \/ ChargerInterrupts_encode
  \/ BypassNodeDetails_decode
  \/ BypassNodeDetails_encode

SpecCodec == InitCodec /\ [][NextCodec]_vars

(***************************************************************************)
(* One set_chgin_ilim over every value of CHARGER_CONFIG_9 and, for every  *)
(* register code, the least and the greatest argument that yields it       *)
(* (each step of 50 mA up to MaxChginSteps, then u16::MAX).                *)
(***************************************************************************)
MaxChginSteps == 65

ChginMilliamps ==
  {50 * k + r : k \in 0 .. MaxChginSteps, r \in {0, 49}} \cup {U16_MAX}

InitChginIlim ==
  /\ \E v \in 0 .. 255 :
       dev = [r \in Regs |-> IF r = CHARGER_CONFIG_9 THEN v ELSE 0]
  /\ pc = "idle"
  /\ call = NoCall
  /\ fr = NoFrame
  /\ bus = <<>>
  /\ ret = "None"
  /\ out = NoOut
  /\ ext = <<>>
  /\ faulted = FALSE
  /\ nops = 0
  /\ consumed = NotConsumed

set_chgin_ilim_any == nops = 0 /\ set_chgin_ilim_with(ChginMilliamps)

NextChginIlim == set_chgin_ilim_any \/ modify_reg_read \/ modify_reg_write

SpecChginIlim == InitChginIlim /\ [][NextChginIlim]_vars


(***************************************************************************)
(* Vocabulary of the properties.                                           *)
(***************************************************************************)
\* The running or last operation is a protected write.
Protected == call.name \in {"set_sys_ilim", "set_fast_charge_current"}

\* The operation has run to completion and returned (it was not dropped).
Returned == pc = "idle" /\ ret \notin {"None", "Cancelled"}

\* The i-th transaction of the operation was issued and failed / succeeded.
Failed(i) == Len(bus) >= i /\ bus[i].result # "Ok"

Succeeded(i) == Len(bus) >= i /\ bus[i].result = "Ok"

\* The bytes of the transactions issued so far.
BusBytes == [i \in 1 .. Len(bus) |-> bus[i].bytes]

\* The three writes of a protected write of the called operation.
ProtectedSequence ==
  << <<CHARGER_CONFIG_6, UNLOCK>>,
     IF call.name = "set_sys_ilim"
     THEN <<CHARGER_CONFIG_5, sys_ilim_byte(call.milliamps, call.recycle_en)>>
     ELSE <<CHARGER_CONFIG_2, chg_cc_code(call.milliamps)>>,
     <<CHARGER_CONFIG_6, LOCK>> >>

\* The top two bits of a register byte.
Top2(v) == v \div 64

(***************************************************************************)
(* C1: in a protected write whose unlock write succeeds and whose target   *)
(* write fails, the lock write [0x1c, 0x00] is the third transaction and   *)
(* the operation returns the target write's error.                         *)
(***************************************************************************)
C1_TargetErrorReturned ==
  (Protected /\ Returned /\ Succeeded(1) /\ Failed(2))
    => /\ Len(bus) = 3
       /\ bus[3].bytes = <<CHARGER_CONFIG_6, LOCK>>
       /\ ret = bus[2].result

(***************************************************************************)
(* C2: in a protected write whose unlock write succeeds and whose target   *)
(* and lock writes both fail, the operation returns the target write's     *)
(* error (the first failure wins).                                         *)
(***************************************************************************)
C2_FirstFailureWins ==
  (Protected /\ Returned /\ Succeeded(1) /\ Failed(2) /\ Failed(3))
    => ret = bus[2].result

(***************************************************************************)
(* C3: when the unlock write of a protected write fails, that is the       *)
(* operation's only transaction, its error is what the operation returns,  *)
(* and the step leaves every device register as it was.                    *)
(***************************************************************************)
C3_UnlockFailedState ==
  (Protected /\ Failed(1))
    => /\ Len(bus) = 1
       /\ bus[1].bytes = <<CHARGER_CONFIG_6, UNLOCK>>
       /\ pc = "idle"
       /\ ret = bus[1].result

C3_UnlockFailedStep ==
  (Protected /\ bus = <<>> /\ Len(bus') = 1 /\ bus'[1].result # "Ok")
    => dev' = dev

\* C3: a failed unlock write ends the protected write: no further transaction,
\* the unlock error returned, the device registers untouched.
C3_UnlockFailureStops == []C3_UnlockFailedState /\ [][C3_UnlockFailedStep]_vars

C3_Witness ==
  /\ call.name = "set_sys_ilim"
  /\ Failed(1)
  /\ pc = "idle"
  /\ ret = "ErrA"
  /\ dev[CHARGER_CONFIG_5] = 0

(***************************************************************************)
(* C4: a protected write issues writes to address 0x6b only, always a      *)
(* prefix of unlock [0x1c, 0x0c], [target, value], lock [0x1c, 0x00] with  *)
(* target 0x1b for set_sys_ilim and 0x18 for set_fast_charge_current; when *)
(* it returns with no transaction failed it has issued exactly the three.  *)
(***************************************************************************)
C4_ProtectedSequence ==
  Protected
    => /\ Len(bus) <= 3
       /\ BusBytes = SubSeq(ProtectedSequence, 1, Len(bus))
       /\ \A i \in 1 .. Len(bus) : bus[i].kind = "write" /\ bus[i].addr = 107
       /\ (Returned /\ \A i \in 1 .. Len(bus) : bus[i].result = "Ok")
            => /\ Len(bus) = 3
               /\ bus[2].bytes[1] =
                    (IF call.name = "set_sys_ilim" THEN 27 ELSE 24)

C4_Witness ==
  /\ call.name = "set_fast_charge_current"
  /\ Returned
  /\ ret = "Ok"
  /\ BusBytes = << <<28, 12>>, <<24, 52>>, <<28, 0>> >>

(***************************************************************************)
(* C5: as long as no transaction has failed and no operation was dropped,  *)
(* the write-protect register is 0x0c exactly while a protected write is   *)
(* between its unlock and its lock write, and 0x00 otherwise (so it is     *)
(* 0x00 whenever the driver is at rest).                                   *)
(***************************************************************************)
C5_LockedAtRest ==
  ~faulted
    => dev[CHARGER_CONFIG_6] =
         (IF pc \in {"write_protected_reg_target", "write_protected_reg_lock"}
          THEN 12
          ELSE 0)

C5_Witness ==
  /\ ~faulted
  /\ nops = 2
  /\ Protected
  /\ Returned
  /\ Len(bus) = 3
  /\ dev[CHARGER_CONFIG_6] = 0
  /\ dev[CHARGER_CONFIG_5] # 0
  /\ dev[CHARGER_CONFIG_2] # 0

(***************************************************************************)
(* C6: dropping a protected write after its unlock write and before its    *)
(* lock write issues no transaction and leaves the write-protect register  *)
(* at 0x0c; the register leaves 0x0c only by the successful lock write of  *)
(* a protected write.                                                      *)
(***************************************************************************)
C6_DropStep ==
  (/\ pc \in {"write_protected_reg_target", "write_protected_reg_lock"}
   /\ ret' = "Cancelled")
    => /\ dev[CHARGER_CONFIG_6] = UNLOCK
       /\ dev'[CHARGER_CONFIG_6] = UNLOCK
       /\ bus' = bus
       /\ pc' = "idle"

C6_RelockStep ==
  (dev[CHARGER_CONFIG_6] = UNLOCK /\ dev'[CHARGER_CONFIG_6] # UNLOCK)
    => /\ pc = "write_protected_reg_lock"
       /\ Protected
       /\ bus' = Append(bus, bus'[Len(bus')])
       /\ bus'[Len(bus')].bytes = <<CHARGER_CONFIG_6, LOCK>>
       /\ bus'[Len(bus')].result = "Ok"

\* C6: a protected write dropped between unlock and lock leaves 0x0c in the
\* write-protect register until a protected write's lock write succeeds.
C6_DroppedStaysUnlocked == [][C6_DropStep /\ C6_RelockStep]_vars

C6_Witness ==
  /\ Protected
  /\ pc = "idle"
  /\ ret = "Cancelled"
  /\ Succeeded(1)
  /\ dev[CHARGER_CONFIG_6] = 12
  /\ nops = 2

(***************************************************************************)
(* C7: the write-back of set_chgin_ilim carries the top two bits of the    *)
(* value modify_reg read, whatever CHARGER_CONFIG_9 holds by then: a write *)
(* of another bus master that landed in between is overwritten.            *)
(***************************************************************************)
C7_WriteBackStep ==
  (/\ call.name = "set_chgin_ilim"
   /\ pc = "modify_reg_write"
   /\ Len(bus') = 2
   /\ bus'[2].result = "Ok")
    => /\ bus[1].data = <<fr.val>>
       /\ Top2(dev'[CHARGER_CONFIG_9]) = Top2(bus[1].data[1])
       /\ bus'[2].bytes[2] = dev'[CHARGER_CONFIG_9]

\* C7: every successful write-back of set_chgin_ilim restores the top 2 bits
\* that were read, losing any update that landed after the read.
C7_StaleWriteBack == [][C7_WriteBackStep]_vars

\* The lost update: the other master's value is gone, the stale bits are back.
C7_Witness ==
  /\ call.name = "set_chgin_ilim"
  /\ Returned
  /\ ret = "Ok"
  /\ ext = <<197>>
  /\ bus[1].data = <<0>>
  /\ Top2(dev[CHARGER_CONFIG_9]) = 0

(***************************************************************************)
(* C8: charger_status is one write-then-read transaction of three bytes    *)
(* from 0x10: the step that clears the interrupt register is the step that *)
(* samples the status register, so what it returns is the status at the    *)
(* moment of the clear and no device event falls in between.               *)
(***************************************************************************)
C8_OneTransaction ==
  call.name = "charger_status"
    => /\ Len(bus) <= 1
       /\ (Len(bus) = 1 => pc = "idle")

C8_StatusStep ==
  (call.name = "charger_status" /\ ret' = "Ok" /\ ret # "Ok")
    => /\ bus' =
            << [kind |-> "write_read", addr |-> 107, bytes |-> <<16>>, len |-> 3,
                result |-> "Ok",
                data |-> <<dev[16], dev[17], dev[18]>>] >>
       /\ dev'[CHARGER_INTERRUPT] = 0
       /\ out'.v = ChargerInterrupts_from_bytes(dev[CHARGER_INTERRUPT_STATUS])

\* C8: charger_status issues one 3-byte write_read at 0x10 whose single step
\* both clears the interrupt register and samples the status register.
C8_AtomicSnapshot == []C8_OneTransaction /\ [][C8_StatusStep]_vars

C8_Witness ==
  /\ call.name = "charger_status"
  /\ Returned
  /\ ret = "Ok"
  /\ bus[1].data = <<144, 255, 144>>
  /\ dev[CHARGER_INTERRUPT] = 0
  /\ out.v.charger
  /\ out.v.adaptive_input_current_loop


\* clamp(x, lo, hi) over the integers.
Clamp(x, lo, hi) == IF x < lo THEN lo ELSE IF x > hi THEN hi ELSE x

(***************************************************************************)
(* C9: for every milliamps in 0..65535 and every recycle_en, the byte      *)
(* set_sys_ilim hands to the protected write of CHARGER_CONFIG_5 is        *)
(* (0x10 if recycle_en) + clamp(floor(milliamps/500) - 5, 0, 15): its low  *)
(* nibble is 15 from 10000 mA on, bit 4 is recycle_en, bits 5-7 are zero.  *)
(***************************************************************************)
C9_SysIlimByte ==
  (call.name = "set_sys_ilim" /\ pc = "write_protected_reg")
    => /\ fr.reg = 27
       /\ fr.val =
            (IF call.recycle_en THEN 16 ELSE 0)
            + Clamp((call.milliamps \div 500) - 5, 0, 15)
       /\ fr.val % 16 \in 0 .. 15
       /\ (call.milliamps >= 10000 => fr.val % 16 = 15)
       /\ ((fr.val \div 16) % 2 = 1) <=> call.recycle_en
       /\ fr.val \div 32 = 0

C9_Witness ==
  /\ call.name = "set_sys_ilim"
  /\ pc = "write_protected_reg"
  /\ call.milliamps = 2499
  /\ call.recycle_en
  /\ fr.val = 16

(***************************************************************************)
(* C10: for every sampled milliamps and every byte v read from             *)
(* CHARGER_CONFIG_9, the byte set_chgin_ilim writes back to 0x1f has the   *)
(* top 2 bits of v and clamp(floor(milliamps/50) - 1, 0, 63) in its low 6  *)
(* bits, whatever the low 6 bits of v are.                                 *)
(***************************************************************************)
C10_ChginWriteBack ==
  (call.name = "set_chgin_ilim" /\ Len(bus) = 2)
    => /\ Succeeded(1)
       /\ bus[2].bytes[1] = 31
       /\ bus[2].bytes[2] \div 64 = bus[1].data[1] \div 64
       /\ bus[2].bytes[2] % 64 = Clamp((call.milliamps \div 50) - 1, 0, 63)

C10_Witness ==
  /\ call.name = "set_chgin_ilim"
  /\ call.milliamps = 49
  /\ Len(bus) = 2
  /\ bus[1].data = <<255>>
  /\ bus[2].bytes = <<31, 192>>
  /\ dev[CHARGER_CONFIG_9] = 192


(***************************************************************************)
(* C11: for every milliamps in 0..65535 the byte set_fast_charge_current   *)
(* hands to the protected write of CHARGER_CONFIG_2 (0x18) is              *)
(* clamp(floor(milliamps/50), 0, 127): 127 from 6350 mA on, bit 7 clear.   *)
(***************************************************************************)
C11_FastChargeByte ==
  (call.name = "set_fast_charge_current" /\ pc = "write_protected_reg")
    => /\ fr.reg = 24
       /\ fr.val = Clamp(call.milliamps \div 50, 0, 127)
       /\ (call.milliamps >= 6350 => fr.val = 127)
       /\ (call.milliamps < 6350 => fr.val < 127)
       /\ fr.val \div 128 = 0

C11_Witness ==
  /\ call.name = "set_fast_charge_current"
  /\ pc = "write_protected_reg"
  /\ call.milliamps = 12800
  /\ fr.val = 127


\* Bit i of byte b is set.
BitSet(b, i) == (b \div (2 ^ i)) % 2 = 1

(***************************************************************************)
(* C12: for every ChargerInterrupts value, set_charger_irq_mask issues one *)
(* write [0x11, b] and no other transaction, where every bit of b is the   *)
(* complement of the flag at that position: an enabled (true) interrupt is *)
(* written as 0, a disabled one as 1.                                      *)
(***************************************************************************)
C12_IrqMaskComplement ==
  call.name = "set_charger_irq_mask"
    => /\ Len(bus) <= 1
       /\ Returned => Len(bus) = 1
       /\ \A i \in 1 .. Len(bus) :
            LET b == bus[i].bytes[2]
            IN  /\ bus[i].kind = "write"
                /\ bus[i].addr = 107
                /\ bus[i].bytes[1] = 17
                /\ BitSet(b, 0) = ~call.irqs.bypass_node
                /\ BitSet(b, 1) = ~call.irqs.disqbat
                /\ BitSet(b, 2) = ~call.irqs.skipped
                /\ BitSet(b, 3) = ~call.irqs.battery
                /\ BitSet(b, 4) = ~call.irqs.charger
                /\ BitSet(b, 5) = ~call.irqs.input_current_limit
                /\ BitSet(b, 6) = ~call.irqs.chgin
                /\ BitSet(b, 7) = ~call.irqs.adaptive_input_current_loop
                /\ b + ChargerInterrupts_into_bytes(call.irqs) = 255

C12_Witness ==
  /\ call.name = "set_charger_irq_mask"
  /\ call.irqs.charger
  /\ call.irqs.chgin
  /\ ~call.irqs.battery
  /\ Returned
  /\ ret = "Ok"
  /\ BusBytes = << <<17, 175>> >>
  /\ dev[CHARGER_INTERRUPT_MASK] = 175


(***************************************************************************)
(* C13: set_mode is unprotected: its only transaction is the write         *)
(* [0x16, code] with code 0x00 Off, 0x04 Buck, 0x05 Charge, 0x09 Boost,    *)
(* 0x0a Otg, issued once when the operation returns; no step of it changes *)
(* the write-protect register or any register other than 0x16.             *)
(***************************************************************************)
C13_ModeCode ==
  CASE call.mode = "Off" -> 0
    [] call.mode = "Buck" -> 4
    [] call.mode = "Charge" -> 5
    [] call.mode = "Boost" -> 9
    [] call.mode = "Otg" -> 10

C13_OneWrite ==
  call.name = "set_mode"
    => /\ Len(bus) <= 1
       /\ Returned => Len(bus) = 1
       /\ \A i \in 1 .. Len(bus) :
            /\ bus[i].kind = "write"
            /\ bus[i].addr = 107
            /\ bus[i].bytes = <<22, C13_ModeCode>>

C13_FrameStep ==
  (call.name = "set_mode" /\ pc = "write_reg" /\ bus' # bus)
    => /\ \A r \in Regs \ {22} : dev'[r] = dev[r]
       /\ dev'[22] \in {dev[22], C13_ModeCode}

\* C13: set_mode issues the single write [0x16, code] and touches no other
\* register, the write-protect register included.
C13_SetModeUnprotected == []C13_OneWrite /\ [][C13_FrameStep]_vars

C13_Witness ==
  /\ call.name = "set_mode"
  /\ call.mode = "Otg"
  /\ Returned
  /\ ret = "Ok"
  /\ BusBytes = << <<22, 10>> >>
  /\ dev[CHARGER_CONFIG_0] = 10
  /\ dev[CHARGER_CONFIG_6] = 0


(***************************************************************************)
(* C14: whatever the three bytes [b0, b1, b2] read from 0x10 are,          *)
(* charger_status returns the flags of b2 alone: bit 0 bypass_node,        *)
(* 1 disqbat, 2 skipped, 3 battery, 4 charger, 5 input_current_limit,      *)
(* 6 chgin, 7 adaptive_input_current_loop; b0 and b1 play no part.         *)
(***************************************************************************)
C14_StatusFromThirdByte ==
  (call.name = "charger_status" /\ Returned /\ ret = "Ok")
    => LET b2 == bus[1].data[3]
       IN  /\ Len(bus[1].data) = 3
           /\ out.kind = "ChargerInterrupts"
           /\ out.v.bypass_node = BitSet(b2, 0)
           /\ out.v.disqbat = BitSet(b2, 1)
           /\ out.v.skipped = BitSet(b2, 2)
           /\ out.v.battery = BitSet(b2, 3)
           /\ out.v.charger = BitSet(b2, 4)
           /\ out.v.input_current_limit = BitSet(b2, 5)
           /\ out.v.chgin = BitSet(b2, 6)
           /\ out.v.adaptive_input_current_loop = BitSet(b2, 7)

C14_Witness ==
  /\ call.name = "charger_status"
  /\ Returned
  /\ ret = "Ok"
  /\ bus[1].data = <<0, 0, 144>>
  /\ out.v =
       [ bypass_node |-> FALSE, disqbat |-> FALSE, skipped |-> FALSE,
         battery |-> FALSE, charger |-> TRUE, input_current_limit |-> FALSE,
         chgin |-> FALSE, adaptive_input_current_loop |-> TRUE ]


(***************************************************************************)
(* C15: charger_details decodes every three bytes [b0, b1, b2] read from   *)
(* 0x13, without failing, by the fixed layout of the little-endian word:   *)
(* sense bits 1-2, chgin 5-6 (of b0), charger 8-11, battery 12-14, temp 15 *)
(* (of b1), bypass 16-19, thermistor 20-22 (of b2).  Words differing only  *)
(* in the reserved bits 0, 3, 4, 7, 23 decode alike, and [0, 0, 0] decodes *)
(* to the zero variant of every sub-field.                                 *)
(***************************************************************************)
C15_ReservedLow == {x \in 0 .. 255 : BitAnd(x, 102) = 0}

C15_ReservedHigh == {0, 128}

C15_Zero ==
  [ sense |-> "Connected", chgin |-> "Undervoltage",
    charger |-> "Prequalification", battery |-> "BatteryRemoved",
    temp |-> "BelowThreshold",
    bypass |-> [ otg_current_limit |-> FALSE, boost_current_limit |-> FALSE,
                 buck_current_limit |-> FALSE, boost_on |-> FALSE ],
    thermistor |-> "Cold" ]

C15_DetailsLayout ==
  (call.name = "charger_details" /\ Returned)
    => /\ Len(bus) = 1
       /\ ret = bus[1].result
       /\ Succeeded(1)
            => LET b0 == bus[1].data[1]
                   b1 == bus[1].data[2]
                   b2 == bus[1].data[3]
               IN  /\ bus[1].bytes = <<19>>
                   /\ bus[1].data = <<dev[19], dev[20], dev[21]>>
                   /\ out.kind = "Details"
                   /\ out.v.sense = BatterySense[((b0 \div 2) % 4) + 1]
                   /\ out.v.chgin = ChgIn[((b0 \div 32) % 4) + 1]
                   /\ out.v.charger = ChargerDetails[(b1 % 16) + 1]
                   /\ out.v.battery = BatteryDetails[((b1 \div 16) % 8) + 1]
                   /\ out.v.temp = TemperatureRegulation[(b1 \div 128) + 1]
                   /\ out.v.bypass =
                        [ otg_current_limit |-> BitSet(b2, 0),
                          boost_current_limit |-> BitSet(b2, 1),
                          buck_current_limit |-> BitSet(b2, 2),
                          boost_on |-> BitSet(b2, 3) ]
                   /\ out.v.thermistor =
                        ThermistorDetails[((b2 \div 16) % 8) + 1]
                   /\ \A r0 \in C15_ReservedLow, r2 \in C15_ReservedHigh :
                        Details_from_bytes(
                          <<BitAnd(b0, 102) + r0, b1, BitAnd(b2, 127) + r2>>)
                          = out.v
                   /\ bus[1].data = <<0, 0, 0>> => out.v = C15_Zero

C15_Witness ==
  /\ call.name = "charger_details"
  /\ Returned
  /\ ret = "Ok"
  /\ bus[1].data = <<0, 0, 0>>
  /\ out = [kind |-> "Details", v |-> C15_Zero]

(***************************************************************************)
(* C16: the re-encodable codecs round-trip.  Encoding the ChargerInterrupts*)
(* decoded from any 8-bit pattern gives the pattern back, decoding the     *)
(* encoding of any ChargerInterrupts gives the value back, and the same    *)
(* holds for the 4-bit patterns and the values of BypassNodeDetails.       *)
(***************************************************************************)
C16_RoundTrip ==
  (out.kind \in {"ChargerInterrupts", "BypassNodeDetails"} /\ out.steps = 2)
    => out.v = out.origin

C16_Witness ==
  /\ out.kind = "ChargerInterrupts"
  /\ out.form = "bits"
  /\ out.steps = 2
  /\ out.origin = 148
  /\ out.v = 148


(***************************************************************************)
(* C17: no operation retries.  Whatever transactions fail, set_mode,       *)
(* enter_ship_mode, set_charger_irq_mask, charger_irq_flags,               *)
(* charger_status and charger_details issue at most 1 transaction,         *)
(* set_chgin_ilim at most 2, set_sys_ilim and set_fast_charge_current at   *)
(* most 3, no transaction is issued twice, and a single-transaction        *)
(* operation returns the result of its transaction unchanged.              *)
(***************************************************************************)
C17_Single ==
  call.name \in { "set_mode", "enter_ship_mode", "set_charger_irq_mask",
                  "charger_irq_flags", "charger_status", "charger_details" }

C17_Budget ==
  IF C17_Single THEN 1 ELSE IF call.name = "set_chgin_ilim" THEN 2 ELSE 3

C17_NoRetries ==
  call.name # "none"
    => /\ Len(bus) <= C17_Budget
       /\ \A i \in 1 .. Len(bus) : \A j \in 1 .. Len(bus) :
            i # j => <<bus[i].kind, bus[i].bytes>> # <<bus[j].kind, bus[j].bytes>>
       /\ (pc = "idle" /\ Len(bus) = C17_Budget) => Returned
       /\ (C17_Single /\ Returned)
            => /\ Len(bus) = 1
               /\ ret = bus[1].result

C17_Witness ==
  /\ call.name = "enter_ship_mode"
  /\ Returned
  /\ Len(bus) = 1
  /\ bus[1].bytes = <<81, 1>>
  /\ bus[1].result = "ErrB"
  /\ ret = "ErrB"

(***************************************************************************)
(* C18: when the read of CHARGER_CONFIG_9 in set_chgin_ilim fails, the     *)
(* read is the operation's only transaction, its error is returned and the *)
(* failing step leaves every device register as it was; a write-back is    *)
(* only ever the second transaction after a successful read, and carries   *)
(* the top two bits of the byte that read returned.                        *)
(***************************************************************************)
C18_ReadFailedState ==
  call.name = "set_chgin_ilim"
    => /\ Failed(1)
         => /\ Len(bus) = 1
            /\ pc = "idle"
            /\ ret = bus[1].result
       /\ \A i \in 1 .. Len(bus) :
            bus[i].kind = "write"
              => /\ i = 2
                 /\ bus[1].kind = "write_read"
                 /\ bus[1].bytes = <<31>>
                 /\ bus[1].result = "Ok"
                 /\ bus[i].bytes[1] = 31
                 /\ bus[i].bytes[2] - (bus[i].bytes[2] % 64)
                      = bus[1].data[1] - (bus[1].data[1] % 64)

C18_ReadFailedStep ==
  (/\ call.name = "set_chgin_ilim"
   /\ pc = "modify_reg"
   /\ Len(bus') = 1
   /\ bus'[1].result # "Ok")
    => /\ dev' = dev
       /\ pc' = "idle"

\* C18: a failed read ends set_chgin_ilim with the read's error, no write and
\* no change on the device.
C18_ReadFailureStops == []C18_ReadFailedState /\ [][C18_ReadFailedStep]_vars

C18_Witness ==
  /\ call.name = "set_chgin_ilim"
  /\ Len(bus) = 1
  /\ bus[1].kind = "write_read"
  /\ bus[1].result = "ErrA"
  /\ pc = "idle"
  /\ ret = "ErrA"
  /\ dev[CHARGER_CONFIG_9] = 0

(***************************************************************************)
(* C19: when the unlock and target writes of a protected write succeed and *)
(* the lock write fails, the operation returns the lock write's error      *)
(* although the target register holds the new value, and the write-protect *)
(* register is left at 0x0c: an error result does not mean the value was   *)
(* not applied.                                                            *)
(***************************************************************************)
C19_LockErrorAfterApply ==
  (Protected /\ Returned /\ Succeeded(1) /\ Succeeded(2) /\ Failed(3))
    => /\ ret = bus[3].result
       /\ ret # "Ok"
       /\ bus[3].bytes = <<28, 0>>
       /\ dev[bus[2].bytes[1]] = bus[2].bytes[2]
       /\ bus[2].bytes = ProtectedSequence[2]
       /\ dev[28] = 12

C19_Witness ==
  /\ call.name = "set_fast_charge_current"
  /\ Returned
  /\ Succeeded(1)
  /\ Succeeded(2)
  /\ Failed(3)
  /\ ret = "ErrB"
  /\ dev[24] = 52
  /\ dev[28] = 12


(***************************************************************************)
(* C20: with a device that clears its interrupt register when 0x10 is      *)
(* read, the first successful charger_irq_flags or charger_status read     *)
(* after a flag was latched consumes it.  charger_status returns the       *)
(* status byte and discards the interrupt byte, so a flag it consumed is   *)
(* reported by no later charger_irq_flags unless the device latches it     *)
(* again, and charger_irq_flags reports a flag only while its latching has *)
(* not been consumed: at most once per latching.                           *)
(***************************************************************************)
\* charger_irq_flags result `v` reports the latched flag `b`.
C20_Reports(v, b) ==
  \/ b = 16 /\ v.charger
  \/ b = 128 /\ v.adaptive_input_current_loop

C20_ConsumedIsGone ==
  \A b \in {16, 128} :
    consumed[b] # "no" => (dev[16] \div b) % 2 = 0

C20_ReadStep ==
  (/\ call.name \in {"charger_irq_flags", "charger_status"}
   /\ bus = <<>>
   /\ Len(bus') = 1
   /\ bus'[1].result = "Ok")
    => /\ dev'[16] = 0
       /\ bus'[1].data[1] = dev[16]
       /\ \A b \in {16, 128} :
            IF call.name = "charger_irq_flags"
            THEN /\ C20_Reports(out'.v, b) <=> (dev[16] \div b) % 2 = 1
                 /\ C20_Reports(out'.v, b)
                      => consumed[b] = "no" /\ consumed'[b] = "reported"
            ELSE /\ (dev[16] \div b) % 2 = 1 => consumed'[b] = "discarded"
                 /\ C20_Reports(out'.v, b) <=> (dev[18] \div b) % 2 = 1

C20_RelatchStep ==
  \A b \in {16, 128} :
    (consumed[b] # "no" /\ consumed'[b] = "no")
      => /\ (dev'[16] \div b) % 2 = 1
         /\ bus' = bus
         /\ pc' = pc

\* C20: a latched flag is consumed by the first successful read of 0x10, a
\* flag charger_status consumed is not reported later, and charger_irq_flags
\* reports each latching at most once.
C20_ClearOnRead ==
  []C20_ConsumedIsGone /\ [][C20_ReadStep /\ C20_RelatchStep]_vars

\* A flag latched before charger_status, then a charger_irq_flags that reads
\* the register successfully and reports nothing.
C20_Witness ==
  /\ call.name = "charger_irq_flags"
  /\ Returned
  /\ ret = "Ok"
  /\ consumed[16] = "discarded"
  /\ bus[1].data = <<0>>
  /\ ~out.v.charger
  /\ nops = 2

=============================================================================
